---- MODULE Spec2Model ----
(***************************************************************************)
(* Model of export_interviews_to_excel.py (class InterviewExporter).       *)
(*                                                                         *)
(* Text is a sequence of lexemes (TLA+ strings): a word, a run of digits   *)
(* split into single digits, a run of '#', one blank, one newline, or one  *)
(* punctuation mark such as "**", "```", "---", "[", "](" split in "]" and *)
(* "(".  A regular expression of the source is an operator that matches    *)
(* lexeme by lexeme with the source's leftmost / lazy / greedy order.  The *)
(* lexemes of the inputs are cut so that every literal of every pattern    *)
(* begins and ends on a lexeme boundary ("important" is "import" "ant").   *)
(***************************************************************************)
EXTENDS Naturals, Sequences, FiniteSets, TLC

VARIABLES pc, arg, shape, files, ret

vars == <<pc, arg, shape, files, ret>>

(***************************************************************************)
(* Lexeme classes and string primitives of Python                          *)
(***************************************************************************)
NL == "\n"
SP == " "

\* \s of the re module
IsSpace(t) == t \in {SP, NL}

\* \d of the re module
IsDigit(t) == t \in {"0", "1", "2", "3", "4", "5", "6", "7", "8", "9"}

\* a run of '#' characters, one lexeme
IsHashRun(t) == t \in {"#", "##", "###", "####"}

Min(S) == CHOOSE m \in S : \A x \in S : m <= x

Max(S) == CHOOSE m \in S : \A x \in S : m >= x

\* s[a-1:b] of Python: the lexemes a..b, cut at the end of s, empty when b < a
Slice(s, a, b) ==
    LET hi == IF b > Len(s) THEN Len(s) ELSE b
    IN  IF hi < a THEN <<>> ELSE SubSeq(s, a, hi)

\* the literal lexemes lit stand in s at position i
At(s, i, lit) ==
    /\ i >= 1
    /\ i + Len(lit) - 1 <= Len(s)
    /\ \A k \in 1..Len(lit) : s[i + k - 1] = lit[k]

\* str.lower() / re.IGNORECASE on the lexemes whose case the inputs vary
Lower(t) ==
    CASE t = "Implement" -> "implement"
      [] t = "IMPLEMENT" -> "implement"
      [] t = "Expected" -> "expected"
      [] t = "EXPECTED" -> "expected"
      [] t = "Answer" -> "answer"
      [] t = "Solution" -> "solution"
      [] t = "Code" -> "code"
      [] t = "Example" -> "example"
      [] t = "Coding" -> "coding"
      [] t = "Algorithm" -> "algorithm"
      [] t = "Challenge" -> "challenge"
      [] t = "Write" -> "write"
      [] t = "Create" -> "create"
      [] t = "Design" -> "design"
      [] t = "Go" -> "go"
      [] t = "Structure" -> "structure"
      [] t = "Intro" -> "intro"
      [] OTHER -> t

LowerText(s) == [k \in 1..Len(s) |-> Lower(s[k])]

\* the literal lexemes lit stand in s at position i, ignoring case
AtI(s, i, lit) ==
    /\ i >= 1
    /\ i + Len(lit) - 1 <= Len(s)
    /\ \A k \in 1..Len(lit) : Lower(s[i + k - 1]) = Lower(lit[k])

\* `lit in s` of Python, on lexemes
Contains(s, lit) == \E i \in 1..(Len(s) + 1) : At(s, i, lit)

\* len(s): the number of characters of the text
RECURSIVE CharLen(_)
CharLen(s) == IF s = <<>> THEN 0 ELSE Len(Head(s)) + CharLen(Tail(s))

\* str.strip()
strip(s) ==
    LET keep == {k \in 1..Len(s) : ~IsSpace(s[k])}
    IN  IF keep = {} THEN <<>> ELSE SubSeq(s, Min(keep), Max(keep))

\* str.split(sep) for a one-lexeme separator: always at least one piece
RECURSIVE split(_, _)
split(s, sep) ==
    LET cut == {k \in 1..Len(s) : s[k] = sep}
    IN  IF cut = {} THEN <<s>>
        ELSE <<Slice(s, 1, Min(cut) - 1)>> \o split(Slice(s, Min(cut) + 1, Len(s)), sep)

\* sep.join(pieces)
RECURSIVE join(_, _)
join(pieces, sep) ==
    IF pieces = <<>> THEN <<>>
    ELSE IF Len(pieces) = 1 THEN pieces[1]
    ELSE pieces[1] \o sep \o join(Tail(pieces), sep)

\* ^ under re.MULTILINE
LineStart(s, i) == i = 1 \/ (i >= 2 /\ i <= Len(s) + 1 /\ s[i - 1] = NL)

\* the position after the longest run of \s lexemes starting at i
SkipSpace(s, i) ==
    LET stop == {k \in i..Len(s) : ~IsSpace(s[k])}
    IN  IF stop = {} THEN Len(s) + 1 ELSE Min(stop)

\* a match object or None; group(1) of a match
None == [some |-> FALSE, value |-> <<>>]
Some(text) == [some |-> TRUE, value |-> text]

\* a lexeme the lookahead (?=\*\*|---|$) or (?=###|---|$) stops before
IsStop(t, stops) ==
    \/ t \in stops
    \/ "###" \in stops /\ t = "####"

\* $ without re.MULTILINE after the lexeme e: the end of the text, or the
\* newline that ends the text
AtEnd(s, e) == e = Len(s) \/ (e = Len(s) - 1 /\ s[Len(s)] = NL)

\* the tail  :?\s*(.+?)(?=stops|$)  (colon optional) or  \s*(.+?)(?=stops|$)
\* of a labelled field, from position k.  The colon and the blanks are
\* greedy and give back one character when nothing else is left for the
\* group; the group is lazy.  No match when the text ends at k.
FieldTail(s, k, optColon, stops) ==
    LET k1 == IF optColon /\ k <= Len(s) /\ s[k] = ":" THEN k + 1 ELSE k
        w == SkipSpace(s, k1)
        g == IF w <= Len(s) THEN w ELSE IF w > k THEN w - 1 ELSE 0
        ends == {e \in g..Len(s) :
                    AtEnd(s, e) \/ (e < Len(s) /\ IsStop(s[e + 1], stops))}
    IN  IF g = 0 THEN None ELSE Some(SubSeq(s, g, Min(ends)))

(***************************************************************************)
(* The file system seen by Path.exists() and open()                        *)
(***************************************************************************)
PLACEHOLDER == <<"N/A">>

\* a regular UTF-8 file, a directory, a file whose bytes f.read() cannot decode
File(text) == [kind |-> "file", content |-> text]
Directory == [kind |-> "dir", content |-> <<>>]
Unreadable == [kind |-> "binary", content |-> <<>>]

\* str(Path(file_path)): Path("") is ".", Path("../") is ".."
PathStr(path) ==
    IF path = <<>> THEN <<".">> ELSE IF path = <<"../">> THEN <<"..">> ELSE path

\* Path(file_path).exists()
exists(fs, path) == path \in DOMAIN fs

(***************************************************************************)
(* create_file_summary                                                     *)
(***************************************************************************)
TITLE_SCAN_LINES == 10
SUMMARY_HEADINGS == 5

\* line.startswith('# ')
IsTitleLine(line) == At(line, 1, <<"#", SP>>)

\* re.match(r'^#+\s+', line)
IsHeadingLine(line) == Len(line) >= 2 /\ IsHashRun(line[1]) /\ IsSpace(line[2])

create_file_summary(content, file_path) ==
    LET lines == split(content, NL)
        first == Slice(lines, 1, TITLE_SCAN_LINES)
        titles == {k \in 1..Len(first) : IsTitleLine(first[k])}
        title == IF titles = {} THEN <<>> ELSE <<first[Min(titles)]>>
        heads == SelectSeq(lines, IsHeadingLine)
        summary_lines == title \o Slice(heads, 1, SUMMARY_HEADINGS)
    IN  IF summary_lines # <<>>
        THEN <<"Content from ">> \o file_path \o <<":", NL, NL>> \o join(summary_lines, <<NL>>)
        ELSE <<"Content available in ">> \o file_path
                 \o <<" (no specific section extracted)">>

(***************************************************************************)
(* extract_section_by_anchor                                               *)
(***************************************************************************)
\* mutant: the digit test on the anchor is dropped
AnchorIsNumberedAny(anchor) == anchor # <<>>

\* re.match(r'^\d+', anchor)
AnchorIsNumbered(anchor) == anchor # <<>> /\ IsDigit(anchor[1])

\* anchor.split("-")[0]
AnchorNumber(anchor) == split(anchor, "-")[1]

\* [\.:]?\s*(.+?)$ from position a: an optional mark, blanks, then at least
\* one character of the same line
HeadingRest(s, a) ==
    \E g \in a..Len(s) :
        /\ s[g] # NL
        /\ \/ \A k \in a..(g - 1) : IsSpace(s[k])
           \/ /\ g > a
              /\ s[a] \in {".", ":"}
              /\ \A k \in (a + 1)..(g - 1) : IsSpace(s[k])

\* rf'^#+\s*{re.escape(number)}[\.:]?\s*(.+?)$' with MULTILINE | IGNORECASE
NumberedHeadingAt(s, i, number) ==
    /\ i <= Len(s)
    /\ LineStart(s, i)
    /\ IsHashRun(s[i])
    /\ LET j == SkipSpace(s, i + 1)
       IN  /\ AtI(s, j, number)
           /\ HeadingRest(s, j + Len(number))

\* re.match(r'^#+\s*\d+', line)
IsNumberedLine(line) ==
    /\ line # <<>>
    /\ IsHashRun(line[1])
    /\ LET j == SkipSpace(line, 2)
       IN  j <= Len(line) /\ IsDigit(line[j])

\* re.match(r'^##[^#]', line)
IsHigherLine(line) == Len(line) >= 2 /\ line[1] = "##"

\* the for loop over lines[1:]: the lines up to the first one that breaks
RECURSIVE SectionLines(_)
SectionLines(lines) ==
    IF lines = <<>> THEN <<>>
    ELSE IF IsNumberedLine(Head(lines)) \/ IsHigherLine(Head(lines)) THEN <<>>
    ELSE <<Head(lines)>> \o SectionLines(Tail(lines))

extract_section_by_anchor(content, anchor) ==
    IF ~AnchorIsNumbered(anchor) THEN None
    ELSE LET number == AnchorNumber(anchor)
             hits == {i \in 1..Len(content) : NumberedHeadingAt(content, i, number)}
         IN  IF hits = {} THEN None
             ELSE LET lines == split(Slice(content, Min(hits), Len(content)), NL)
                      section_lines == <<lines[1]>> \o SectionLines(Tail(lines))
                  IN  Some(strip(join(section_lines, <<NL>>)))

(***************************************************************************)
(* fetch_reference_content                                                 *)
(***************************************************************************)
\* the first ")" at or after position k, 0 when there is none
CloseParen(s, k) ==
    LET close == {c \in k..Len(s) : s[c] = ")"}
    IN  IF close = {} THEN 0 ELSE Min(close)

\* re.search(r'\[.*?\]\(([^)]+)\)', text): the pairs <<i, j>> of the "[" and
\* of the "](" of a link whose target is not empty
LinkPairs(s) ==
    {p \in (1..Len(s)) \X (1..Len(s)) :
        /\ s[p[1]] = "["
        /\ p[2] > p[1]
        /\ At(s, p[2], <<"]", "(">>)
        /\ \A k \in (p[1] + 1)..(p[2] - 1) : s[k] # NL
        /\ CloseParen(s, p[2] + 2) > p[2] + 2}

\* file_match.group(1), for a text with a link
LinkTarget(s) ==
    LET i == Min({p[1] : p \in LinkPairs(s)})
        j == Min({p[2] : p \in {q \in LinkPairs(s) : q[1] = i}})
    IN  SubSeq(s, j + 2, CloseParen(s, j + 2) - 1)

\* mutant: the fragment after "#" stays in the path
NormalizePathKeepAnchor(target) ==
    IF At(target, 1, <<"../">>) THEN Tail(target) ELSE target

\* lines 178-183: drop one leading "../", then the fragment after "#"
NormalizePath(target) ==
    LET hop == IF At(target, 1, <<"../">>) THEN Tail(target) ELSE target
    IN  IF Contains(hop, <<"#">>) THEN split(hop, "#")[1] ELSE hop

\* str(e) of the exception lines 191-192 raise: IsADirectoryError of open(),
\* UnicodeDecodeError of f.read()
OpenError(fs, path) ==
    IF fs[path].kind = "dir"
    THEN <<"[Errno 21] Is a directory: ", "'">>
             \o PathStr(path) \o <<"'">>
    ELSE <<"'utf-8' codec can't decode byte 0xff in position 0: invalid start byte">>

Return(text, effects) == [kind |-> "return", value |-> text, trace |-> effects]
Raise(text, effects) == [kind |-> "raise", value |-> text, trace |-> effects]

\* lines 194-203, after the file was read
ResolveContent(content, original_ref, file_path, effects) ==
    IF Contains(original_ref, <<"#">>)
    THEN LET anchor == split(original_ref, "#")[2]
             section_content == extract_section_by_anchor(content, anchor)
             called == effects \o <<"extract_section_by_anchor">>
         IN  IF section_content.some /\ section_content.value # <<>>
             THEN Return(section_content.value, called)
             ELSE Return(create_file_summary(content, file_path),
                         called \o <<"create_file_summary">>)
    ELSE Return(create_file_summary(content, file_path),
                effects \o <<"create_file_summary">>)

\* the body of the try statement, lines 166-203
FetchTry(reference_text, fs) ==
    IF LinkPairs(reference_text) = {} THEN Return(reference_text, <<>>)
    ELSE LET original_ref == LinkTarget(reference_text)
             file_path == NormalizePath(original_ref)
         IN  IF ~exists(fs, file_path)
             THEN Return(<<"Referenced file not found: ">> \o file_path, <<>>)
             ELSE IF fs[file_path].kind # "file"
             THEN Raise(OpenError(fs, file_path), <<"open">>)
             ELSE ResolveContent(fs[file_path].content, original_ref, file_path,
                                 <<"open">>)

\* mutant: no except clause, the exception leaves the function
FetchExceptMissing(outcome) == outcome

\* except Exception as e, lines 205-206
FetchExcept(outcome) ==
    IF outcome.kind = "raise"
    THEN Return(<<"Error fetching reference: ">> \o outcome.value, outcome.trace)
    ELSE outcome

fetch_reference_content(reference_text, fs) ==
    IF reference_text = PLACEHOLDER \/ reference_text = <<>>
    THEN Return(PLACEHOLDER, <<>>)
    ELSE FetchExcept(FetchTry(reference_text, fs))

(***************************************************************************)
(* extract_code_answer                                                     *)
(***************************************************************************)
MIN_BLOCK_CHARS == 20

\* the three backticks of a code fence (a backtick cannot stand in a TLA+
\* string, the lexeme is written with three quotes)
FENCE == "'''"
BOLD == "**"

\* lines 269-272, lower-cased as line 274 does
coding_indicators ==
    {<<"challenge", ":">>, <<"coding">>, <<"implement", "ation">>, <<"algorithm">>,
     <<"write", SP, "a">>, <<"implement">>, <<"create", SP, "a", SP, "go">>,
     <<"design", SP, "and", SP, "implement">>}

\* mutant: every body is classified as a coding question
is_coding_questionAlways(question_content) == TRUE

\* lines 274-275
is_coding_question(question_content) ==
    LET lowered == LowerText(question_content)
    IN  \E indicator \in coding_indicators : Contains(lowered, indicator)

\* line 291
go_keywords ==
    {<<"package">>, <<"import">>, <<"func">>, <<"type">>, <<"var">>, <<"const">>,
     <<"go", SP>>, <<"chan">>, <<"select">>}

\* line 292
LooksLikeGo(block) == \E keyword \in go_keywords : Contains(block, keyword)

\* the newlines directly followed by a fence, at or after position c
Closings(s, c) == {x \in c..(Len(s) - 1) : s[x] = NL /\ s[x + 1] = FENCE}

NoMatch == [ok |-> FALSE, group |-> <<>>, end |-> 0]

\* (.*?)\n```  after the newline at q: the group and the position of the fence
FenceBody(s, q) ==
    LET c == Min(Closings(s, q + 1))
    IN  [ok |-> TRUE, group |-> Slice(s, q + 1, c - 1), end |-> c + 1]

\* \s*\n(.*?)\n```  from position k: the greedy blanks keep the last newline
\* after which a closing fence is left
AfterBlanks(s, k) ==
    LET w == SkipSpace(s, k)
        Q == {q \in k..(w - 1) : s[q] = NL /\ Closings(s, q + 1) # {}}
    IN  IF Q = {} THEN NoMatch ELSE FenceBody(s, Max(Q))

\* .*?\n(.*?)\n```  from position k (DOTALL): the lazy run ends at the first
\* newline after which a closing fence is left
AfterTag(s, k) ==
    LET Q == {q \in k..Len(s) : s[q] = NL /\ Closings(s, q + 1) # {}}
    IN  IF Q = {} THEN NoMatch ELSE FenceBody(s, Min(Q))

\* \*\*:?\s*```.*?\n(.*?)\n```  at the "**" at position b
LabelFence(s, b) ==
    LET k == IF b + 1 <= Len(s) /\ s[b + 1] = ":" THEN b + 2 ELSE b + 1
        f == SkipSpace(s, k)
    IN  IF s[b] = BOLD /\ f <= Len(s) /\ s[f] = FENCE THEN AfterTag(s, f + 1) ELSE NoMatch

\* the first position at or after k where the word stands, ignoring case;
\* 0 when there is none
FirstWord(s, k, word) ==
    LET W == {x \in k..Len(s) : Lower(s[x]) = word}
    IN  IF W = {} THEN 0 ELSE Min(W)

\* the match that starts at the first "**" at or after k for which the
\* fence pattern matches
FirstLabelFence(s, k) ==
    LET B == {b \in k..Len(s) : LabelFence(s, b).ok}
    IN  IF k = 0 \/ B = {} THEN NoMatch ELSE LabelFence(s, Min(B))

\* one pattern of the function matched at position i
MatchAt(pattern, s, i) ==
    CASE pattern = "go" ->
           \* line 284: ```go\s*\n(.*?)\n```
           IF At(s, i, <<FENCE, "go">>) THEN AfterBlanks(s, i + 2) ELSE NoMatch
      [] pattern = "generic" ->
           \* line 288: ```\s*\n(.*?)\n```
           IF At(s, i, <<FENCE>>) THEN AfterBlanks(s, i + 1) ELSE NoMatch
      [] pattern = "answer" ->
           \* line 297: \*\*Expected.*?Answer.*?\*\*:?\s*```.*?\n(.*?)\n```
           IF AtI(s, i, <<BOLD, "expected">>)
           THEN LET a == FirstWord(s, i + 2, "answer")
                IN  FirstLabelFence(s, IF a = 0 THEN 0 ELSE a + 1)
           ELSE NoMatch
      [] pattern = "expected_solution" ->
           \* line 298: \*\*Expected.*?Solution.*?\*\*:?\s*```.*?\n(.*?)\n```
           IF AtI(s, i, <<BOLD, "expected">>)
           THEN LET a == FirstWord(s, i + 2, "solution")
                IN  FirstLabelFence(s, IF a = 0 THEN 0 ELSE a + 1)
           ELSE NoMatch
      [] pattern = "solution" ->
           \* line 299: \*\*Solution.*?\*\*:?\s*```.*?\n(.*?)\n```
           IF AtI(s, i, <<BOLD, "solution">>) THEN FirstLabelFence(s, i + 2) ELSE NoMatch
      [] OTHER ->
           \* line 300: ### Expected Solution Structure\s*```.*?\n(.*?)\n```
           IF /\ i <= Len(s)
              /\ s[i] \in {"###", "####"}
              /\ AtI(s, i + 1, <<SP, "expected", SP, "solution", SP, "structure">>)
              /\ SkipSpace(s, i + 7) <= Len(s)
              /\ s[SkipSpace(s, i + 7)] = FENCE
           THEN AfterTag(s, SkipSpace(s, i + 7) + 1)
           ELSE NoMatch

\* re.findall(pattern, s, ...) from position k on: the groups of the
\* non-overlapping matches, leftmost first
RECURSIVE findall(_, _, _)
findall(pattern, s, k) ==
    LET starts == {i \in k..Len(s) : MatchAt(pattern, s, i).ok}
    IN  IF starts = {} THEN <<>>
        ELSE LET m == MatchAt(pattern, s, Min(starts))
             IN  <<m.group>> \o findall(pattern, s, m.end + 1)

\* lines 284-285
go_blocks(s) == findall("go", s, 1)

\* lines 288-293
generic_blocks(s) == SelectSeq(findall("generic", s, 1), LooksLikeGo)

\* lines 296-305, in the order of the list solution_patterns
solution_blocks(s) ==
    findall("answer", s, 1) \o findall("expected_solution", s, 1)
        \o findall("solution", s, 1) \o findall("structure", s, 1)

\* lines 281-305
code_blocks(s) == go_blocks(s) \o generic_blocks(s) \o solution_blocks(s)

\* mutant: the length filter is dropped
KeepBlockAnyLength(cleaned_block) == cleaned_block # <<>>

\* line 313
KeepBlock(cleaned_block) ==
    cleaned_block # <<>> /\ CharLen(cleaned_block) > MIN_BLOCK_CHARS

\* lines 309-314
RECURSIVE cleaned_blocks(_)
cleaned_blocks(blocks) ==
    IF blocks = <<>> THEN <<>>
    ELSE (IF KeepBlock(strip(Head(blocks))) THEN <<strip(Head(blocks))>> ELSE <<>>)
             \o cleaned_blocks(Tail(blocks))

\* line 317: the separator of '\n\n--- CODE BLOCK ---\n\n'.join
SEPARATOR == <<NL, NL, "--- CODE BLOCK ---", NL, NL>>

\* lines 321-324:
\* \*\*Expected.*?Code.*?Example.*?\*\*:?\s*(.+?)(?=\*\*|---|$), IGNORECASE
code_example_match(s) ==
    LET ends == {p \in (1..Len(s)) \X (1..Len(s)) :
                    /\ AtI(s, p[1], <<BOLD, "expected">>)
                    /\ LET c == FirstWord(s, p[1] + 2, "code")
                           e == IF c = 0 THEN 0 ELSE FirstWord(s, c + 1, "example")
                       IN  e # 0 /\ p[2] > e
                    /\ s[p[2]] = BOLD
                    /\ p[2] < Len(s)}
    IN  IF ends = {} THEN None
        ELSE LET i == Min({p[1] : p \in ends})
                 b == Min({p[2] : p \in {q \in ends : q[1] = i}})
             IN  FieldTail(s, b + 1, TRUE, {BOLD, "---"})

extract_code_answer(question_content) ==
    IF question_content = <<>> THEN <<>>
    ELSE IF ~is_coding_question(question_content) THEN <<>>
    ELSE LET cleaned == cleaned_blocks(code_blocks(question_content))
         IN  IF cleaned # <<>> THEN join(cleaned, SEPARATOR)
             ELSE IF code_example_match(question_content).some
             THEN strip(code_example_match(question_content).value)
             ELSE <<>>

(***************************************************************************)
(* extract_questions_from_part: the labelled fields of one question block  *)
(***************************************************************************)
QUOTE == "\""

\* the first position at or after k where the word stands, in its own
\* case; 0 when there is none
FirstExact(s, k, word) ==
    LET W == {x \in k..Len(s) : s[x] = word}
    IN  IF k = 0 \/ W = {} THEN 0 ELSE Min(W)

\* lines 84-85 and 146-147: re.search(r'\*\*"(.+?)"\*\*', s, re.DOTALL)
question_match(s) ==
    LET opens == {i \in 1..Len(s) :
                     /\ At(s, i, <<BOLD, QUOTE>>)
                     /\ \E j \in (i + 3)..Len(s) : At(s, j, <<QUOTE, BOLD>>)}
    IN  IF opens = {} THEN None
        ELSE LET i == Min(opens)
                 j == Min({x \in (i + 3)..Len(s) : At(s, x, <<QUOTE, BOLD>>)})
             IN  Some(SubSeq(s, i + 2, j - 1))

\* the position of the "Point" / "Points" lexeme that ends the label which
\* opens at i, 0 when  \*\*Expected.*?Answer.*?Points?\*\*:  does not match
\* there with something left for the group
PointsLabelEnd(s, i) ==
    LET a == IF At(s, i, <<BOLD, "Expected">>) THEN FirstExact(s, i + 2, "Answer") ELSE 0
        P == {p \in (a + 1)..Len(s) :
                 /\ s[p] \in {"Point", "Points"}
                 /\ At(s, p + 1, <<BOLD, ":">>)
                 /\ p + 2 < Len(s)}
    IN  IF a = 0 \/ P = {} THEN 0 ELSE Min(P)

\* lines 88-89 and 150-151:
\* \*\*Expected.*?Answer.*?Points?\*\*:\s*(.+?)(?=\*\*|---|$)
expected_points_match(s) ==
    LET starts == {i \in 1..Len(s) : PointsLabelEnd(s, i) # 0}
    IN  IF starts = {} THEN None
        ELSE FieldTail(s, PointsLabelEnd(s, Min(starts)) + 3, FALSE, {BOLD, "---"})

\* the position of the "**" that closes the label which opens at i, 0 when
\* \*\*(?:Problem Statement|Expected Solution.*?)\*\*  does not match there
\* with something left for the group
BoldLabelEnd(s, i) ==
    IF At(s, i, <<BOLD, "Problem", SP, "Statement", BOLD>>) /\ i + 4 < Len(s)
    THEN i + 4
    ELSE IF At(s, i, <<BOLD, "Expected", SP, "Solution">>)
    THEN LET B == {b \in (i + 4)..(Len(s) - 1) : s[b] = BOLD}
         IN  IF B = {} THEN 0 ELSE Min(B)
    ELSE 0

\* lines 92-93:
\* \*\*(?:Problem Statement|Expected Solution.*?)\*\*\s*(.+?)(?=\*\*|---|$)
expected_bold_match(s) ==
    LET starts == {i \in 1..Len(s) : BoldLabelEnd(s, i) # 0}
    IN  IF starts = {} THEN None
        ELSE FieldTail(s, BoldLabelEnd(s, Min(starts)) + 1, FALSE, {BOLD, "---"})

\* lines 96-97:
\* ### (?:Problem Statement|Expected Solution.*?)\s*(.+?)(?=###|---|$)
expected_heading_match(s) ==
    LET starts == {i \in 1..Len(s) :
                      /\ s[i] \in {"###", "####"}
                      /\ \/ At(s, i + 1, <<SP, "Problem", SP, "Statement">>)
                         \/ At(s, i + 1, <<SP, "Expected", SP, "Solution">>)
                      /\ i + 4 < Len(s)}
    IN  IF starts = {} THEN None
        ELSE FieldTail(s, Min(starts) + 5, FALSE, {"###", "---"})

\* lines 88-98: the three patterns in order, the first that matches wins
expected_answer(s) ==
    IF expected_points_match(s).some THEN strip(expected_points_match(s).value)
    ELSE IF expected_bold_match(s).some THEN strip(expected_bold_match(s).value)
    ELSE IF expected_heading_match(s).some THEN strip(expected_heading_match(s).value)
    ELSE PLACEHOLDER

\* the position of the "**" that closes the label which opens at i, 0 when
\* \*\*Follow-up.*?\*\*:  does not match there with something left
FollowupLabelEnd(s, i) ==
    LET B == {b \in (i + 2)..Len(s) : At(s, b, <<BOLD, ":">>) /\ b + 1 < Len(s)}
    IN  IF At(s, i, <<BOLD, "Follow-up">>) /\ B # {} THEN Min(B) ELSE 0

\* lines 101-102: \*\*Follow-up.*?\*\*:\s*(.+?)(?=\*\*|---|$)
followup_match(s) ==
    LET starts == {i \in 1..Len(s) : FollowupLabelEnd(s, i) # 0}
    IN  IF starts = {} THEN None
        ELSE FieldTail(s, FollowupLabelEnd(s, Min(starts)) + 2, FALSE, {BOLD, "---"})

\* lines 106-107: \*\*Reference\*\*:\s*(.+?)(?=\*\*|---|$)
reference_match(s) ==
    LET starts == {i \in 1..Len(s) :
                      At(s, i, <<BOLD, "Reference", BOLD, ":">>) /\ i + 3 < Len(s)}
    IN  IF starts = {} THEN None
        ELSE FieldTail(s, Min(starts) + 4, FALSE, {BOLD, "---"})

\* lines 115-116: re.search(r'\((\d+.*?minutes?)\)', question_title); the
\* result is assigned to time_allocation, which line 118 does not read
time_allocation(question_title) ==
    LET s == question_title
        ends == {p \in (1..Len(s)) \X (1..Len(s)) :
                    /\ s[p[1]] = "("
                    /\ p[1] < Len(s)
                    /\ IsDigit(s[p[1] + 1])
                    /\ p[2] > p[1] + 1
                    /\ s[p[2]] \in {"minute", "minutes"}
                    /\ At(s, p[2] + 1, <<")">>)}
    IN  IF ends = {} THEN PLACEHOLDER
        ELSE LET i == Min({p[1] : p \in ends})
                 j == Min({p[2] : p \in {q \in ends : q[1] = i}})
             IN  SubSeq(s, i + 1, j)

\* mutant: an unmatched field is left empty instead of "N/A"
OrEmpty(match, stripped) ==
    IF ~match.some THEN <<>>
    ELSE IF stripped THEN strip(match.value) ELSE match.value

\* group(1) or "N/A", with or without .strip()
OrPlaceholder(match, stripped) ==
    IF ~match.some THEN PLACEHOLDER
    ELSE IF stripped THEN strip(match.value) ELSE match.value

\* lines 83-127: the record of one question block
QuestionRecord(part_title, question_title, question_content, fs) ==
    LET reference_text == OrPlaceholder(reference_match(question_content), TRUE)
    IN  [part |-> part_title,
         question_title |-> question_title,
         question_text |-> OrPlaceholder(question_match(question_content), FALSE),
         expected_answer |-> expected_answer(question_content),
         followup |-> OrPlaceholder(followup_match(question_content), TRUE),
         reference_link |-> reference_text,
         reference_content |-> fetch_reference_content(reference_text, fs).value,
         code_answer |-> extract_code_answer(question_content)]

(***************************************************************************)
(* extract_questions: re.split on the part and question headings           *)
(***************************************************************************)
\* the position after the last lexeme of the line that holds position i
LineEnd(s, i) ==
    LET nl == {x \in i..Len(s) : s[x] = NL}
    IN  IF nl = {} THEN Len(s) + 1 ELSE Min(nl)

\* line 58: ^## (Part \d+.*?)$ matches at position i
PartHeadingAt(s, i) ==
    /\ LineStart(s, i)
    /\ At(s, i, <<"##", SP, "Part", SP>>)
    /\ i + 4 <= Len(s)
    /\ IsDigit(s[i + 4])

\* line 76: the labels of a question sub-heading
question_labels ==
    {<<"Question">>, <<"Challenge">>, <<"SQL", SP, "Query">>,
     <<"Database", SP, "Schema", SP, "Design">>, <<"Scenario">>}

\* mutant: every level-3 heading opens a question block
QuestionHeadingAtAnyLabel(s, i) ==
    /\ LineStart(s, i)
    /\ At(s, i, <<"###", SP>>)

\* line 76: ^### ((?:Question|Challenge|...).*?)$ matches at position i
QuestionHeadingAt(s, i) ==
    /\ LineStart(s, i)
    /\ At(s, i, <<"###", SP>>)
    /\ \E label \in question_labels : At(s, i + 2, label)

\* the members of a set of positions in increasing order
RECURSIVE Sorted(_)
Sorted(S) == IF S = {} THEN <<>> ELSE <<Min(S)>> \o Sorted(S \ {Min(S)})

\* re.split(pattern, s) with one group, without its first piece: the pairs
\* of a heading's group and of the text up to the next heading
Sections(s, heads) ==
    LET at == Sorted(heads)
    IN  [k \in 1..Len(at) |->
            [title |-> Slice(s, at[k] + 2, LineEnd(s, at[k]) - 1),
             content |-> Slice(s, LineEnd(s, at[k]),
                               IF k < Len(at) THEN at[k + 1] - 1 ELSE Len(s))]]

\* sequences of sequences, concatenated
RECURSIVE Flatten(_)
Flatten(seqs) == IF seqs = <<>> THEN <<>> ELSE Head(seqs) \o Flatten(Tail(seqs))

\* lines 71-129
extract_questions_from_part(part_title, part_content, fs) ==
    LET question_sections ==
            Sections(part_content,
                     {i \in 1..Len(part_content) : QuestionHeadingAt(part_content, i)})
    IN  [k \in 1..Len(question_sections) |->
            QuestionRecord(part_title, question_sections[k].title,
                           question_sections[k].content, fs)]

\* lines 53-69
extract_questions(content, fs) ==
    LET parts == Sections(content, {i \in 1..Len(content) : PartHeadingAt(content, i)})
    IN  Flatten([k \in 1..Len(parts) |->
                    extract_questions_from_part(parts[k].title, parts[k].content, fs)])

\* the number of "#" of a lexeme, 0 for a lexeme that is not a run of "#"
Hashes(t) ==
    CASE t = "#" -> 1 [] t = "##" -> 2 [] t = "###" -> 3 [] t = "####" -> 4 [] OTHER -> 0

\* the first position from k on that holds a newline, 0 when there is none
FirstNewline(s, k) ==
    LET N == {x \in k..Len(s) : s[x] = NL}
    IN  IF N = {} THEN 0 ELSE Min(N)

\* re.findall of a pattern with one lazy group that a lookahead or \Z ends:
\* the groups of the successive matches, the search going on where the
\* last match ended. opens[i] is the position of the group of a match that
\* starts at i (0 without match), ends is the set of the positions where the
\* lookahead holds.
RECURSIVE Groups(_, _, _, _)
Groups(s, from, opens, ends) ==
    LET starts == {i \in from..Len(s) : opens[i] # 0}
    IN  IF starts = {} THEN <<>>
        ELSE LET g == opens[Min(starts)]
                 e == Min({x \in g..(Len(s) + 1) : x = Len(s) + 1 \/ x \in ends})
             IN  <<Slice(s, g, e - 1)>> \o Groups(s, e, opens, ends)

\* line 136: ### Alternative.*?Questions.*?\n  matched at i: the position
\* after its newline, 0 without match
AltSectionOpen(s, i) ==
    LET q == IF Hashes(s[i]) >= 3 /\ At(s, i + 1, <<SP, "Alternative">>)
             THEN FirstExact(s, i + 3, "Questions") ELSE 0
        n == IF q = 0 THEN 0 ELSE FirstNewline(s, q + 1)
    IN  IF n = 0 THEN 0 ELSE n + 1

\* line 136: (?=^##|^---|\Z) short of \Z
AltSectionEnd(s, e) ==
    e <= Len(s) /\ LineStart(s, e) /\ (Hashes(s[e]) >= 2 \/ s[e] = "---")

\* lines 136-137
alt_sections(content) ==
    Groups(content, 1,
           [i \in 1..Len(content) |-> AltSectionOpen(content, i)],
           {e \in 1..Len(content) : AltSectionEnd(content, e)})

\* line 141: #### Alternative.*?\n  matched at i: the position after its
\* newline, 0 without match
AltQuestionOpen(s, i) ==
    LET n == IF Hashes(s[i]) >= 4 /\ At(s, i + 1, <<SP, "Alternative">>)
             THEN FirstNewline(s, i + 3) ELSE 0
    IN  IF n = 0 THEN 0 ELSE n + 1

\* line 141: (?=####|###|^##|\Z) short of \Z
AltQuestionEnd(s, e) ==
    e <= Len(s) /\ (Hashes(s[e]) >= 3 \/ (LineStart(s, e) /\ Hashes(s[e]) >= 2))

\* lines 141-142
alt_questions(section) ==
    Groups(section, 1,
           [i \in 1..Len(section) |-> AltQuestionOpen(section, i)],
           {e \in 1..Len(section) : AltQuestionEnd(section, e)})

\* lines 144-156
AlternativeRecord(alt_content) ==
    [question_text |-> OrPlaceholder(question_match(alt_content), FALSE),
     expected_answer |-> OrPlaceholder(expected_points_match(alt_content), TRUE)]

\* lines 131-159
extract_alternatives(content) ==
    LET sections == alt_sections(content)
    IN  Flatten([k \in 1..Len(sections) |->
                    LET found == alt_questions(sections[k])
                    IN  [j \in 1..Len(found) |-> AlternativeRecord(found[j])]])

(***************************************************************************)
(* Reference resolution: the citations and the file systems it is run on   *)
(***************************************************************************)
MaxHops == 2
MaxSections == 2

\* the decimal digits of k, one lexeme each
RECURSIVE Numeral(_)
Numeral(k) == IF k < 10 THEN <<ToString(k)>> ELSE Numeral(k \div 10) \o <<ToString(k % 10)>>

RECURSIVE NumberedSections(_, _)
NumberedSections(k, n) ==
    IF k > n THEN <<>>
    ELSE <<"##", SP>> \o Numeral(k) \o <<".", SP, "Topic", NL, "text", NL,
           "###", SP, "Detail", NL, "more", NL>> \o NumberedSections(k + 1, n)

\* a referenced question bank with a title, an unnumbered section and n numbered ones
JuniorMd(n) ==
    <<"#", SP, "Go", SP, "Junior", NL, NL,
      "##", SP, "Intro", SP, "to", SP, "Go", NL, "text", NL>> \o NumberedSections(1, n)

NotesMd == <<"just", SP, "text", NL>>

JuniorPath == <<"golang/junior.md">>
NotesPath == <<"notes.md">>
MissingPath == <<"golang/none.md">>
DirPath == <<"golang">>
BinaryPath == <<"logo.md">>
CwdPath == <<>>
ParentPath == <<"../">>

FileSystem(n) ==
    (CwdPath :> Directory) @@ (ParentPath :> Directory) @@ (DirPath :> Directory) @@ (BinaryPath :> Unreadable)
        @@ (JuniorPath :> File(JuniorMd(n))) @@ (NotesPath :> File(NotesMd))

FileSystems == {FileSystem(n) : n \in 0..MaxSections}

RECURSIVE Hops(_)
Hops(n) == IF n = 0 THEN <<>> ELSE <<"../">> \o Hops(n - 1)

Anchors ==
    {[has |-> FALSE, text |-> <<>>], [has |-> TRUE, text |-> <<>>],
     [has |-> TRUE, text |-> <<"intro", "-", "to", "-", "go">>],
     [has |-> TRUE, text |-> <<"topic">>]}
    \cup {[has |-> TRUE, text |-> Numeral(k) \o <<"-", "topic">>] : k \in 0..(MaxSections + 1)}
    \cup {[has |-> TRUE, text |-> Numeral(k)] : k \in 1..MaxSections}

LinkShapes ==
    [form : {"link"}, hops : 0..MaxHops,
     path : {JuniorPath, NotesPath, MissingPath, DirPath, BinaryPath, CwdPath},
     anchor : Anchors]

NoLink(form) == [form |-> form, hops |-> 0, path |-> <<>>, anchor |-> [has |-> FALSE, text |-> <<>>]]

CitationShapes ==
    LinkShapes \cup {NoLink(f) : f \in {"placeholder", "empty", "prose", "unclosed", "notarget"}}

\* the target of a link as it is written between "(" and ")"
WrittenTarget(sh) ==
    Hops(sh.hops) \o sh.path \o (IF sh.anchor.has THEN <<"#">> \o sh.anchor.text ELSE <<>>)

\* the citation string of a shape
Citation(sh) ==
    CASE sh.form = "placeholder" -> PLACEHOLDER
      [] sh.form = "empty" -> <<>>
      [] sh.form = "prose" -> <<"Similar", SP, "to", SP, "the", SP, "docs">>
      [] sh.form = "unclosed" -> <<"See", SP, "[", "docs", "]", "(", "docs.md">>
      [] sh.form = "notarget" -> <<"See", SP, "[", "docs", "]", "(", ")">>
      [] OTHER -> <<"See", SP, "[", "junior.md", SP, "-", SP, "Q", "]", "(">>
                      \o WrittenTarget(sh) \o <<")">>

Pending == [kind |-> "pending", value |-> <<>>, trace |-> <<>>]

InitRef ==
    /\ pc = "call"
    /\ shape \in CitationShapes
    /\ arg = Citation(shape)
    /\ files \in FileSystems
    /\ ret = Pending

\* one call of fetch_reference_content
FetchReference ==
    /\ pc = "call"
    /\ ret' = fetch_reference_content(arg, files)
    /\ pc' = "done"
    /\ UNCHANGED <<arg, shape, files>>

NextRef == FetchReference

SpecRef == InitRef /\ [][NextRef]_vars

(***************************************************************************)
(* Properties of reference resolution, checked under SpecRef               *)
(***************************************************************************)
\* the path a link names: its written target without one leading "../"
\* and without the "#anchor" fragment
NamedPath(sh) == IF sh.hops = 0 THEN sh.path ELSE Hops(sh.hops - 1) \o sh.path

LinksReadableFile ==
    /\ shape.form = "link"
    /\ NamedPath(shape) \in DOMAIN files
    /\ files[NamedPath(shape)].kind = "file"

\* the text of a heading line: what follows the '#' run and the blanks
HeadingText(line) == Slice(line, SkipSpace(line, 2), Len(line))

\* some heading line of the text begins with the number, in any case
SomeHeadingBeginsWith(text, number) ==
    \E k \in 1..Len(split(text, NL)) :
        LET line == split(text, NL)[k]
        IN  /\ line # <<>>
            /\ IsHashRun(line[1])
            /\ AtI(HeadingText(line), 1, number)

\* the leading token of an anchor, up to its first "-"
LeadingToken(anchor) ==
    LET dash == {k \in 1..Len(anchor) : anchor[k] = "-"}
    IN  IF dash = {} THEN anchor ELSE Slice(anchor, 1, Min(dash) - 1)

\* C1: reference resolution is total: for every citation string (placeholder,
\* empty, prose, malformed link, missing path, directory, undecodable file,
\* anchor that matches nothing) the call returns a non-empty string and
\* raises nothing to its caller.
RefResolutionTotal ==
    pc = "done" => ret.kind = "return" /\ CharLen(ret.value) > 0

\* a link to a directory was resolved: open() raised and the call returned
RefResolutionTotalWitness ==
    /\ pc = "done"
    /\ shape.form = "link"
    /\ NamedPath(shape) = DirPath
    /\ ret.trace = <<"open">>
    /\ At(ret.value, 1, <<"Error fetching reference: ">>)

\* C9: for a link to an existing readable file with an anchor, every anchor
\* that does not begin with a digit, and every digit anchor whose number no
\* heading begins with, resolves to the file summary of create_file_summary.
AnchorFallsBackToSummary ==
    (/\ pc = "done"
     /\ LinksReadableFile
     /\ shape.anchor.has
     /\ \/ shape.anchor.text = <<>>
        \/ ~IsDigit(shape.anchor.text[1])
        \/ ~SomeHeadingBeginsWith(files[NamedPath(shape)].content,
                                  LeadingToken(shape.anchor.text)))
    => ret.value = create_file_summary(files[NamedPath(shape)].content, NamedPath(shape))

\* a word anchor that a heading of the file does begin with was resolved
AnchorFallsBackToSummaryWitness ==
    /\ pc = "done"
    /\ LinksReadableFile
    /\ shape.anchor.text = <<"intro", "-", "to", "-", "go">>
    /\ SomeHeadingBeginsWith(files[NamedPath(shape)].content, <<"intro">>)
    /\ ret.trace = <<"open", "extract_section_by_anchor", "create_file_summary">>
    /\ At(ret.value, 1, <<"Content from ">>)

\* C10: a link whose named path does not exist resolves to the not-found
\* string holding that path, and the file is not opened, no section is
\* extracted and no summary is made.
MissingFileReported ==
    (/\ pc = "done"
     /\ shape.form = "link"
     /\ NamedPath(shape) \notin DOMAIN files)
    => /\ ret.kind = "return"
       /\ ret.value = <<"Referenced file not found: ">> \o NamedPath(shape)
       /\ ret.trace = <<>>

\* the spec's example: ../golang/none.md#1-topic, which does not exist
MissingFileReportedWitness ==
    /\ pc = "done"
    /\ shape.form = "link"
    /\ shape.hops = 1
    /\ shape.path = MissingPath
    /\ shape.anchor.text = <<"1", "-", "topic">>
    /\ ret.value = <<"Referenced file not found: ", "golang/none.md">>

(***************************************************************************)
(* Code answers: the question bodies extract_code_answer is run on         *)
(***************************************************************************)
MaxSegments == 2

\* the opening sentence of a body, with or without a trigger phrase
Intro(name) ==
    CASE name = "explain" -> <<"Explain", SP, "how", SP, "slices", SP, "grow", ".", NL>>
      [] name = "implement" -> <<"Implement", SP, "a", SP, "stack", ".", NL>>
      [] name = "upper" -> <<"IMPLEMENT", SP, "it", ".", NL>>
      [] name = "encoding" -> <<"Describe", SP, "the", SP, "en", "coding", ".", NL>>
      [] OTHER -> <<>>

Intros == {"explain", "implement", "upper", "encoding", "none"}

\* the content of a fenced block, the k-th of its body
Code(kind, k) ==
    CASE kind = "long" ->
           <<"func", SP, "f">> \o Numeral(k)
               \o <<"()", SP, "{", NL, SP, SP, "return", SP, "nil", NL, "}">>
      [] kind = "short" -> <<"x", SP, ":=", SP>> \o Numeral(k)
      [] kind = "nineteen" ->
           <<"var", SP, "total", SP, "int", SP, "=", SP, "10">> \o Numeral(k)
      [] kind = "twenty" ->
           <<"var", SP, "total", SP, "int", SP, "=", SP, "100">> \o Numeral(k)
      [] kind = "twentyone" ->
           <<"var", SP, "total", SP, "int", SP, "=", SP, "1000">> \o Numeral(k)
      [] OTHER ->
           <<"hello", SP, "world", SP, "output", SP, "line", SP>> \o Numeral(k)

\* the bold or heading label directly above a fence; "remark" is no label
\* but a sentence that holds the keyword "import"
Label(name) ==
    CASE name = "answer" -> <<BOLD, "Expected", SP, "Answer", BOLD, ":", NL>>
      [] name = "remark" -> <<"This", SP, "is", SP, "an", SP, "import", "ant", SP, "remark", ".", NL>>
      [] name = "solution" -> <<BOLD, "Solution", BOLD, ":", NL>>
      [] name = "expected_solution" -> <<BOLD, "Expected", SP, "Solution", BOLD, ":", NL>>
      [] name = "structure" ->
           <<"###", SP, "Expected", SP, "Solution", SP, "Structure", NL>>
      [] OTHER -> <<>>

Tag(name) == IF name = "none" THEN <<>> ELSE <<name>>

Fenced(label, tag, code) == [kind |-> "fence", label |-> label, tag |-> tag, code |-> code]

\* a paragraph between two blocks; "important" holds the keyword "import"
Prose == [kind |-> "prose", label |-> "none", tag |-> "none", code |-> "none"]

Segments ==
    {Fenced("none", "go", "long"), Fenced("answer", "go", "long"),
     Fenced("solution", "go", "long"), Fenced("expected_solution", "go", "long"),
     Fenced("structure", "go", "long"), Fenced("none", "go", "short"),
     Fenced("none", "go", "nineteen"), Fenced("none", "go", "twenty"),
     Fenced("none", "go", "twentyone"),
     Fenced("none", "none", "long"), Fenced("none", "none", "plain"),
     Fenced("expected_solution", "python", "plain"), Fenced("remark", "go", "long"), Prose}

SegmentText(seg, k) ==
    IF seg.kind = "prose"
    THEN <<"This", SP, "is", SP, "an", SP, "import", "ant", SP, "remark", ".", NL>>
    ELSE Label(seg.label) \o <<FENCE>> \o Tag(seg.tag) \o <<NL>>
             \o Code(seg.code, k) \o <<NL, FENCE, NL>>

RECURSIVE SegmentsText(_, _)
SegmentsText(segs, k) ==
    IF k > Len(segs) THEN <<>>
    ELSE SegmentText(segs[k], k) \o SegmentsText(segs, k + 1)

ExampleLabel == <<BOLD, "Expected", SP, "Code", SP, "Example", BOLD, ":", SP>>
ExampleText == <<"use", SP, "a", SP, "map">>

BodyShapes ==
    [intro : Intros,
     segments : UNION {[1..n -> Segments] : n \in 0..MaxSegments},
     example : BOOLEAN]

\* the question body of a shape
Body(sh) ==
    Intro(sh.intro) \o SegmentsText(sh.segments, 1)
        \o (IF sh.example THEN ExampleLabel \o ExampleText \o <<NL>> ELSE <<>>)

InitCode ==
    /\ pc = "call"
    /\ shape \in BodyShapes
    /\ arg = Body(shape)
    /\ files = <<>>
    /\ ret = Pending

\* one call of extract_code_answer
ExtractCodeAnswer ==
    /\ pc = "call"
    /\ ret' = Return(extract_code_answer(arg), <<>>)
    /\ pc' = "done"
    /\ UNCHANGED <<arg, shape, files>>

NextCode == ExtractCodeAnswer

SpecCode == InitCode /\ [][NextCode]_vars

(***************************************************************************)
(* Properties of code-answer extraction, checked under SpecCode            *)
(***************************************************************************)
\* the opening sentence holds a trigger phrase: "Implement", "IMPLEMENT",
\* "encoding" (which holds "coding"); no other piece of a body holds one
HasTrigger(sh) == sh.intro \in {"implement", "upper", "encoding"}

\* the positions of the fenced blocks of a body
FencePositions(sh) == {k \in 1..Len(sh.segments) : sh.segments[k].kind = "fence"}

\* the snippets of a joined code answer: the pieces between the separators
RECURSIVE Snippets(_)
Snippets(text) ==
    LET sep == {k \in 1..Len(text) : At(text, k, SEPARATOR)}
    IN  IF sep = {} THEN <<text>>
        ELSE <<Slice(text, 1, Min(sep) - 1)>>
                 \o Snippets(Slice(text, Min(sep) + Len(SEPARATOR), Len(text)))

\* C6: a body with a trigger phrase and exactly one fenced block, tagged go
\* and longer than 20 trimmed characters, yields exactly that block's trimmed
\* content, once and without separator, also when the block stands directly
\* under an Expected Answer / Expected Solution / Solution label.
SingleBlockReturnedOnce ==
    (/\ pc = "done"
     /\ HasTrigger(shape)
     /\ Cardinality(FencePositions(shape)) = 1
     /\ \A k \in FencePositions(shape) :
           /\ shape.segments[k].tag = "go"
           /\ shape.segments[k].code \in {"long", "twentyone"})
    => \A k \in FencePositions(shape) :
           ret.value = strip(Code(shape.segments[k].code, k))

\* C7: a body without trigger phrase yields the empty string, never "N/A",
\* whatever fenced blocks and Expected Code Example label it holds.
NoTriggerYieldsEmpty ==
    (pc = "done" /\ ~HasTrigger(shape)) => ret.value = <<>> /\ ret.value # PLACEHOLDER

\* a body without trigger phrase, with a long go block and the example label
NoTriggerYieldsEmptyWitness ==
    /\ pc = "done"
    /\ shape.intro = "explain"
    /\ shape.example
    /\ \E k \in FencePositions(shape) : shape.segments[k] = Fenced("none", "go", "long")
    /\ ret.value = <<>>

\* C8: every snippet of a joined code answer has at least 20 trimmed
\* characters; a fenced block of fewer than 20 is none of them.
ShortBlocksExcluded ==
    (pc = "done" /\ HasTrigger(shape) /\ cleaned_blocks(code_blocks(arg)) # <<>>)
    => \A n \in 1..Len(Snippets(ret.value)) :
           LET snippet == Snippets(ret.value)[n]
           IN  /\ CharLen(strip(snippet)) >= MIN_BLOCK_CHARS
               /\ \A k \in FencePositions(shape) :
                     CharLen(Code(shape.segments[k].code, k)) < MIN_BLOCK_CHARS
                         => snippet # Code(shape.segments[k].code, k)

\* a block of 19 and a block of 21 characters were collected, one was kept
ShortBlocksExcludedWitness ==
    /\ pc = "done"
    /\ HasTrigger(shape)
    /\ Len(shape.segments) = 2
    /\ shape.segments[1] = Fenced("none", "go", "nineteen")
    /\ shape.segments[2] = Fenced("none", "go", "twentyone")
    /\ Snippets(ret.value)[1] = Code("twentyone", 2)

\* the fenced blocks of a body whose content is a text and that belong to a
\* group: 1 tagged go, 2 untagged and holding a keyword, 3 under an Expected
\* Answer / Expected Solution / Solution label
BlocksOf(sh, text, group) ==
    {k \in FencePositions(sh) :
        /\ Code(sh.segments[k].code, k) = text
        /\ CASE group = 1 -> sh.segments[k].tag = "go"
             [] group = 2 -> sh.segments[k].tag = "none"
                                /\ sh.segments[k].code \notin {"short", "plain"}
             [] OTHER -> sh.segments[k].label \notin {"none", "remark"}}

\* C12: for a coding body every snippet of the code answer is the content
\* of a fenced block of the body, the snippets of blocks tagged go first, then
\* those of untagged blocks with a keyword, then those of blocks under a
\* label; text outside the fenced blocks, such as prose between the closing
\* fence of a block and the opening fence of the next, is never a snippet.
SnippetsAreFencedBlocks ==
    (pc = "done" /\ HasTrigger(shape) /\ cleaned_blocks(code_blocks(arg)) # <<>>)
    => LET snippets == Snippets(ret.value)
       IN  /\ \A n \in 1..Len(snippets) :
                 \E k \in FencePositions(shape) :
                     snippets[n] = Code(shape.segments[k].code, k)
           /\ \E group \in [1..Len(snippets) -> 1..3] :
                 /\ \A n \in 1..Len(snippets) : BlocksOf(shape, snippets[n], group[n]) # {}
                 /\ \A n \in 1..(Len(snippets) - 1) : group[n] <= group[n + 1]

(***************************************************************************)
(* Question blocks: the documents extract_questions is run on to look at   *)
(* the fields of one block                                                 *)
(***************************************************************************)
PartOneTitle == <<"Part", SP, "1", ":", SP, "Basics">>
PartTwoTitle == <<"Part", SP, "2", ":", SP, "Advanced">>

TimedTitle == <<"Question", SP, "1", SP, "(", "5", SP, "minutes", ")">>
UntimedTitle == <<"Question", SP, "2">>

QuestionText == <<"What", SP, "is", SP, "a", SP, "slice", "?">>
PointsText == <<"Mentions", SP, "pointer", ",", SP, "length", ",", SP, "capacity", ".">>
ProblemText == <<"Reverse", SP, "a", SP, "list", ".">>
FollowupText == <<"Why", "?">>

LinkTo(target) == <<"See", SP, "[", "junior.md", SP, "-", SP, "Q", "]", "(">> \o target \o <<")">>

\* the citation of a reference variant
ReferenceText(variant) ==
    CASE variant = "prose" -> <<"the", SP, "docs">>
      [] variant = "missing" ->
           LinkTo(<<"../">> \o MissingPath \o <<"#", "1", "-", "topic">>)
      [] variant = "found" ->
           LinkTo(<<"../">> \o JuniorPath \o <<"#", "1", "-", "topic">>)
      [] OTHER -> <<>>

\* the lines of one field of a block, none when the field is absent
FieldLines(field, variant) ==
    CASE variant = "absent" -> <<>>
      [] field = "question" -> <<BOLD, QUOTE>> \o QuestionText \o <<QUOTE, BOLD, NL>>
      [] field = "expected" /\ variant = "points" ->
           <<BOLD, "Expected", SP, "Answer", SP, "Points", BOLD, ":", SP>>
               \o PointsText \o <<NL>>
      [] field = "expected" /\ variant = "problem" ->
           <<BOLD, "Problem", SP, "Statement", BOLD, NL>> \o ProblemText \o <<NL>>
      [] field = "expected" ->
           <<BOLD, "Expected", SP, "Answer", SP, "Points", BOLD, ":", NL>>
      [] field = "followup" /\ variant = "text" ->
           <<BOLD, "Follow-up", SP, "Questions", BOLD, ":", SP>> \o FollowupText \o <<NL>>
      [] field = "followup" -> <<BOLD, "Follow-up", BOLD, ":", NL>>
      [] field = "reference" /\ variant = "empty" -> <<BOLD, "Reference", BOLD, ":", NL>>
      [] OTHER -> <<BOLD, "Reference", BOLD, ":", SP>> \o ReferenceText(variant) \o <<NL>>

\* the ways a field can stand in a block
Variants(field) ==
    CASE field = "question" -> {"text"}
      [] field = "expected" -> {"points", "problem", "empty"}
      [] field = "followup" -> {"text", "empty"}
      [] OTHER -> {"prose", "missing", "found", "empty"}

FieldNames == {"question", "expected", "followup", "reference"}

BlockShapes ==
    [timed : BOOLEAN,
     coding : BOOLEAN,
     question : Variants("question") \cup {"absent"},
     expected : Variants("expected") \cup {"absent"},
     followup : Variants("followup") \cup {"absent"},
     reference : Variants("reference") \cup {"absent"},
     rule : BOOLEAN]

\* the body of the block of a shape
BlockBody(sh) ==
    (IF sh.coding THEN Intro("implement") ELSE <<>>)
        \o FieldLines("question", sh.question)
        \o FieldLines("expected", sh.expected)
        \o FieldLines("followup", sh.followup)
        \o FieldLines("reference", sh.reference)
        \o (IF sh.coding THEN SegmentText(Fenced("none", "go", "long"), 1) ELSE <<>>)
        \o (IF sh.rule THEN <<NL, "---", NL>> ELSE <<>>)

\* a document with a title, one part and the block of a shape
BlockDocument(sh) ==
    <<"#", SP, "Go", SP, "Junior", NL, NL, "##", SP>> \o PartOneTitle \o <<NL, NL, "###", SP>>
        \o (IF sh.timed THEN TimedTitle ELSE UntimedTitle) \o <<NL>> \o BlockBody(sh)

InitFields ==
    /\ pc = "call"
    /\ shape \in BlockShapes
    /\ arg = BlockDocument(shape)
    /\ files = FileSystem(1)
    /\ ret = Pending

\* one call of extract_questions
ExtractQuestions ==
    /\ pc = "call"
    /\ ret' = Return(extract_questions(arg, files), <<>>)
    /\ pc' = "done"
    /\ UNCHANGED <<arg, shape, files>>

NextFields == ExtractQuestions

SpecFields == InitFields /\ [][NextFields]_vars

(***************************************************************************)
(* Properties of the fields of a question block, checked under SpecFields  *)
(***************************************************************************)
\* the key of the record that holds a field
RecordKey(field) ==
    CASE field = "question" -> "question_text"
      [] field = "expected" -> "expected_answer"
      [] field = "followup" -> "followup"
      [] OTHER -> "reference_link"

\* C2: a block whose heading carries "(5 minutes)", with a bold-quoted
\* question and an Expected Answer Points label and no trigger phrase, yields
\* exactly one record with part = the part title, time_allocation = "5 minutes",
\* question_text = the quoted text, expected_answer = the trimmed text after
\* the label, code_answer = the empty string.
TimedQuestionRecord ==
    (/\ pc = "done"
     /\ shape.timed
     /\ shape.question = "text"
     /\ shape.expected = "points"
     /\ ~shape.coding)
    => /\ Len(ret.value) = 1
       /\ ret.value[1].part = PartOneTitle
       /\ ret.value[1].question_text = QuestionText
       /\ ret.value[1].expected_answer = PointsText
       /\ ret.value[1].code_answer = <<>>
       /\ "time_allocation" \in DOMAIN ret.value[1]
       /\ ret.value[1].time_allocation = <<"5", SP, "minutes">>

FieldOrder == <<"question", "expected", "followup", "reference">>

Place(field) == CHOOSE k \in 1..Len(FieldOrder) : FieldOrder[k] = field

\* the fields of a block that stand before the place of field f
Before(sh, f) == {g \in FieldNames : Place(g) < Place(f) /\ sh[g] # "absent"}

\* g is the last field of the block that stands before the place of f: the
\* label of f, were it present, would end the text of g
DirectlyBefore(sh, g, f) ==
    g \in Before(sh, f) /\ \A h \in Before(sh, f) : Place(h) <= Place(g)

MaxItems == 4

\* the labels a question sub-heading can begin with, other than "Question"
OtherLabels ==
    {<<"Challenge", ":", SP, "stack">>, <<"SQL", SP, "Query", SP, "1">>,
     <<"Database", SP, "Schema", SP, "Design">>, <<"Scenario", SP, "A">>}

ItemKinds ==
    {"part1", "part2", "overview", "question", "labelled", "notes", "deep", "prose"}

\* the text of a part heading or of a sub-heading after its hashes and space
ItemTitle(kind, label) ==
    CASE kind = "part1" -> PartOneTitle
      [] kind = "part2" -> PartTwoTitle
      [] kind = "overview" -> <<"Overview">>
      [] kind = "question" -> UntimedTitle
      [] kind = "labelled" -> label
      [] kind = "notes" -> <<"Notes">>
      [] kind = "deep" -> <<"Question", SP, "3">>
      [] OTHER -> <<>>

\* the line of an item
ItemLine(kind, label) ==
    CASE kind \in {"part1", "part2", "overview"} -> <<"##", SP>> \o ItemTitle(kind, label) \o <<NL>>
      [] kind \in {"question", "labelled", "notes"} -> <<"###", SP>> \o ItemTitle(kind, label) \o <<NL>>
      [] kind = "deep" -> <<"####", SP>> \o ItemTitle(kind, label) \o <<NL>>
      [] OTHER -> <<"Some", SP, "text", ".", NL>>

DocShapes ==
    [items : UNION {[1..n -> ItemKinds] : n \in 0..MaxItems}, label : OtherLabels]

RECURSIVE ItemLines(_, _)
ItemLines(items, label) ==
    IF items = <<>> THEN <<>>
    ELSE ItemLine(Head(items), label) \o ItemLines(Tail(items), label)

Document(sh) == <<"#", SP, "Go", SP, "Junior", NL>> \o ItemLines(sh.items, sh.label)

InitDoc ==
    /\ pc = "call"
    /\ shape \in DocShapes
    /\ arg = Document(shape)
    /\ files = FileSystem(1)
    /\ ret = Pending

NextDoc == ExtractQuestions

SpecDoc == InitDoc /\ [][NextDoc]_vars

(***************************************************************************)
(* Properties of the records of a document, checked under SpecDoc          *)
(***************************************************************************)
\* the part and title the records of a document are to have: one per
\* question sub-heading that stands after a part heading, under the title of
\* the last part heading before it
RECURSIVE Expected(_, _, _)
Expected(items, label, part) ==
    IF items = <<>> THEN <<>>
    ELSE IF Head(items) \in {"part1", "part2"}
         THEN Expected(Tail(items), label, Some(ItemTitle(Head(items), label)))
    ELSE IF Head(items) \in {"question", "labelled"} /\ part.some
         THEN <<[part |-> part.value, question_title |-> ItemTitle(Head(items), label)]>>
                  \o Expected(Tail(items), label, part)
    ELSE Expected(Tail(items), label, part)

\* C3: extract_questions returns one record per recognized question
\* sub-heading that lies after the first part heading, in document order, each
\* with the title of the nearest preceding part heading as its part;
\* sub-headings before the first part heading yield none, and a document
\* without part headings yields the empty sequence.
OneRecordPerSubHeading ==
    pc = "done" =>
        LET expected == Expected(shape.items, shape.label, None)
        IN  /\ Len(ret.value) = Len(expected)
            /\ \A k \in 1..Len(expected) :
                  /\ ret.value[k].part = expected[k].part
                  /\ ret.value[k].question_title = expected[k].question_title
            /\ (\A k \in 1..Len(shape.items) : shape.items[k] \notin {"part1", "part2"})
                   => ret.value = <<>>

\* a sub-heading before the first part heading, then two part headings and
\* a sub-heading that belongs to the second
OneRecordPerSubHeadingWitness ==
    /\ pc = "done"
    /\ shape.items = <<"question", "part1", "part2", "labelled">>
    /\ Len(ret.value) = 1
    /\ ret.value[1].part = PartTwoTitle
    /\ ret.value[1].question_title = shape.label

(***************************************************************************)
(* Documents with a section of alternative questions                       *)
(***************************************************************************)
MaxAlternatives == 2

AltShapes == [question : BOOLEAN, expected : BOOLEAN]

AltDocShapes ==
    [lead : BOOLEAN,
     heading : {"plain", "long"},
     intro : {"none", "blank", "prose"},
     indented : BOOLEAN,
     alts : UNION {[1..n -> AltShapes] : n \in 0..MaxAlternatives},
     end : {"eof", "rule", "part"}]

AltQuestionText(k) == <<"Alt", SP>> \o Numeral(k) \o <<"?">>

\* the k-th alternative: its heading, its question and its expected answer
AltLines(alt, k, indented) ==
    (IF indented THEN <<SP, SP>> ELSE <<>>)
        \o <<"####", SP, "Alternative", SP>> \o Numeral(k) \o <<":", SP, "Topic", NL>>
        \o (IF alt.question THEN <<BOLD, QUOTE>> \o AltQuestionText(k) \o <<QUOTE, BOLD, NL>>
            ELSE <<>>)
        \o (IF alt.expected
            THEN <<BOLD, "Expected", SP, "Answer", SP, "Points", BOLD, ":", SP>>
                     \o PointsText \o <<NL>>
            ELSE <<>>)

RECURSIVE AltsLines(_, _, _)
AltsLines(alts, k, indented) ==
    IF k > Len(alts) THEN <<>>
    ELSE AltLines(alts[k], k, indented) \o AltsLines(alts, k + 1, indented)

AltDocument(sh) ==
    <<"#", SP, "Go", SP, "Junior", NL>>
        \o (IF sh.lead
            THEN <<"##", SP>> \o PartOneTitle \o <<NL, "###", SP>> \o UntimedTitle \o <<NL>>
                     \o FieldLines("question", "text")
            ELSE <<>>)
        \o (IF sh.heading = "plain" THEN <<"###", SP, "Alternative", SP, "Questions", NL>>
            ELSE <<"###", SP, "Alternative", SP, "Coding", SP, "Questions", SP,
                   "(", "pick", SP, "one", ")", NL>>)
        \o (CASE sh.intro = "none" -> <<>>
              [] sh.intro = "blank" -> <<NL>>
              [] OTHER -> <<"Some", SP, "text", ".", NL>>)
        \o AltsLines(sh.alts, 1, sh.indented)
        \o (CASE sh.end = "eof" -> <<>>
              [] sh.end = "rule" -> <<"---", NL>>
              [] OTHER -> <<"##", SP>> \o PartTwoTitle \o <<NL, "###", SP>> \o TimedTitle \o <<NL>>
                              \o FieldLines("question", "text"))

InitAlt ==
    /\ pc = "call"
    /\ shape \in AltDocShapes
    /\ arg = AltDocument(shape)
    /\ files = FileSystem(1)
    /\ ret = Pending

\* one call of extract_alternatives
ExtractAlternatives ==
    /\ pc = "call"
    /\ ret' = Return(extract_alternatives(arg), <<>>)
    /\ pc' = "done"
    /\ UNCHANGED <<arg, shape, files>>

NextAlt == ExtractAlternatives

SpecAlt == InitAlt /\ [][NextAlt]_vars

(***************************************************************************)
(* Properties of the alternative records, checked under SpecAlt            *)
(***************************************************************************)
\* C5: with N "#### Alternative" headings, each at the start of a line,
\* under an "### Alternative ... Questions" sub-heading and before the next
\* part heading or horizontal rule, extract_alternatives returns N records
\* in document order, each with the question text and the expected answer
\* found under its heading, "N/A" when absent.
AlternativesExtracted ==
    (pc = "done" /\ ~shape.indented) =>
        /\ Len(ret.value) = Len(shape.alts)
        /\ \A k \in 1..Len(shape.alts) :
              /\ ret.value[k].question_text =
                     (IF shape.alts[k].question THEN AltQuestionText(k) ELSE PLACEHOLDER)
              /\ ret.value[k].expected_answer =
                     (IF shape.alts[k].expected THEN PointsText ELSE PLACEHOLDER)

(***************************************************************************)
(* parse_markdown_file and export_to_excel                                 *)
(***************************************************************************)
\* line 27: re.search(r'^# (.+)$', content, re.MULTILINE)
title_match(content) ==
    LET starts == {i \in 1..Len(content) :
                      /\ LineStart(content, i)
                      /\ At(content, i, <<"#", SP>>)
                      /\ i + 2 <= Len(content)
                      /\ content[i + 2] # NL}
    IN  IF starts = {} THEN None
        ELSE Some(Slice(content, Min(starts) + 2, LineEnd(content, Min(starts)) - 1))

\* lines 31, 34, 37: the group of  \*\*<label>\*\*:\s*(.+)  for a label
\* that ends before position k: the rest of the first line with text after
\* the white space, or the last blank of the white space when only white
\* space follows
MetaTail(s, k) ==
    LET j == SkipSpace(s, k)
        blanks == {x \in k..Len(s) : s[x] # NL}
    IN  IF j <= Len(s) THEN Some(Slice(s, j, LineEnd(s, j) - 1))
        ELSE IF blanks = {} THEN None
        ELSE Some(<<s[Max(blanks)]>>)

\* lines 31, 34, 37: re.search(r'\*\*<label>\*\*:\s*(.+)', content)
meta_match(content, label) ==
    LET opening == <<BOLD>> \o label \o <<BOLD, ":">>
        starts == {i \in 1..Len(content) :
                      At(content, i, opening) /\ MetaTail(content, i + Len(opening)).some}
    IN  IF starts = {} THEN None
        ELSE MetaTail(content, Min(starts) + Len(opening))

\* lines 21-51, after the file was read; stem is file_path.stem
parse_markdown_file(content, stem, fs) ==
    LET title_found == title_match(content)
    IN  [title |-> IF title_found.some THEN title_found.value ELSE stem,
         duration |-> OrPlaceholder(meta_match(content, <<"Duration">>), FALSE),
         format |-> OrPlaceholder(meta_match(content, <<"Format">>), FALSE),
         target_level |-> OrPlaceholder(meta_match(content, <<"Target", SP, "Level">>), FALSE),
         questions |-> extract_questions(content, fs),
         alternatives |-> extract_alternatives(content)]

\* lines 371-375: the levels in the order of the dict, and their files
interview_levels == <<"Junior", "Intermediate", "Senior">>

interview_files ==
    [Junior |-> <<"junior-go-developer", ".md">>,
     Intermediate |-> <<"intermediate-go-developer", ".md">>,
     Senior |-> <<"senior-go-developer", ".md">>]

\* line 380: self.interviews_dir / filename
LevelPath(dir, level) == dir \o interview_files[level]

\* lines 391-401: the rows of the questions sheet
questions_data(questions) ==
    [k \in 1..Len(questions) |->
        [Part |-> questions[k].part,
         QuestionTitle |-> questions[k].question_title,
         QuestionText |-> questions[k].question_text,
         ExpectedAnswerPoints |-> questions[k].expected_answer,
         CodeAnswer |-> questions[k].code_answer,
         FollowupQuestions |-> questions[k].followup,
         ReferenceLink |-> questions[k].reference_link,
         ReferenceContent |-> questions[k].reference_content]]

\* lines 413-417: the rows of the alternatives sheet
alternatives_data(alternatives) ==
    [k \in 1..Len(alternatives) |->
        [AlternativeQuestionText |-> alternatives[k].question_text,
         ExpectedAnswerPoints |-> alternatives[k].expected_answer]]

\* lines 428-436: the Summary row of a level
summary_data(level, interview_data) ==
    <<[Level |-> level,
       Title |-> interview_data.title,
       Duration |-> interview_data.duration,
       Format |-> interview_data.format,
       TargetLevel |-> interview_data.target_level,
       NumberOfQuestions |-> Len(interview_data.questions),
       NumberOfAlternatives |-> Len(interview_data.alternatives)]>>

\* a sheet of the workbook
Sheet(name, rows) == [name |-> name, rows |-> rows]

\* mutant: the summary is only begun at the Junior level
append_summaryFromJunior(level, df_summary, rows) ==
    IF level = "Junior" THEN Some(rows)
    ELSE IF df_summary.some THEN Some(df_summary.value \o rows)
    ELSE None

\* lines 438-445: df_summary after a level; None is a name not yet in locals()
append_summary(level, df_summary, rows) ==
    LET begun == IF level = "Junior" THEN Some(<<>>) ELSE df_summary
    IN  IF ~begun.some THEN Some(rows) ELSE Some(begun.value \o rows)

\* the level after a level, "summary" after the last
NextLevel(level) ==
    LET k == CHOOSE x \in 1..Len(interview_levels) : interview_levels[x] = level
    IN  IF k < Len(interview_levels) THEN interview_levels[k + 1] ELSE "summary"

\* the locals of export_to_excel and what it has printed
Running(sheets, df_summary, printed) ==
    [kind |-> "running", value |-> [sheets |-> sheets, df_summary |-> df_summary],
     trace |-> printed]

\* lines 382-384: the file of the level is not there
SkipLevel(level) ==
    /\ pc = level
    /\ ~exists(files, LevelPath(arg, level))
    /\ ret' = [ret EXCEPT !.trace = @ \o <<[event |-> "skipping", level |-> level]>>]
    /\ pc' = NextLevel(level)
    /\ UNCHANGED <<arg, shape, files>>

\* lines 403-421: the sheets of a level, none for an empty list
level_sheets(level, interview_data) ==
    (IF interview_data.questions # <<>>
     THEN <<Sheet(<<level, "_Questions">>, questions_data(interview_data.questions))>>
     ELSE <<>>)
        \o (IF interview_data.alternatives # <<>>
            THEN <<Sheet(<<level, "_Alternatives">>,
                         alternatives_data(interview_data.alternatives))>>
            ELSE <<>>)

\* lines 389-445: the locals after the level's file was parsed
process_level(level, locals, printed, interview_data) ==
    Running(locals.sheets \o level_sheets(level, interview_data),
            append_summary(level, locals.df_summary, summary_data(level, interview_data)),
            printed)

\* lines 386-445: the file of the level is there
ProcessLevel(level) ==
    /\ pc = level
    /\ exists(files, LevelPath(arg, level))
    /\ LET file_path == LevelPath(arg, level)
           printed == ret.trace \o <<[event |-> "processing", level |-> level]>>
       IN  IF files[file_path].kind # "file"
           THEN /\ ret' = Raise(OpenError(files, file_path), printed)
                /\ pc' = "done"
           ELSE /\ ret' = process_level(level, ret.value, printed,
                                        parse_markdown_file(files[file_path].content,
                                                            <<interview_files[level][1]>>,
                                                            files))
                /\ pc' = NextLevel(level)
    /\ UNCHANGED <<arg, shape, files>>

\* lines 447-456: the Summary sheet, the end of the with block and the last
\* print. What the writer does on closing a workbook without sheets is the
\* library's: it saves it or raises.
WriteSummary ==
    /\ pc = "summary"
    /\ LET sheets ==
               ret.value.sheets
                   \o (IF ret.value.df_summary.some
                       THEN <<Sheet(<<"Summary">>, ret.value.df_summary.value)>> ELSE <<>>)
       IN  \/ ret' = Return([sheets |-> sheets, df_summary |-> ret.value.df_summary],
                            ret.trace \o <<[event |-> "exported", level |-> "all"]>>)
           \/ /\ sheets = <<>>
              /\ ret' = Raise(<<"At least one sheet must be visible">>, ret.trace)
    /\ pc' = "done"
    /\ UNCHANGED <<arg, shape, files>>

(***************************************************************************)
(* The interview directories export_to_excel is run on                     *)
(***************************************************************************)
InterviewsDir == <<"interviews/">>

LevelKinds == {"missing", "directory", "questions", "alternatives", "bare"}

ExportShapes == [Junior : LevelKinds, Intermediate : LevelKinds, Senior : LevelKinds]

\* the interview file of a level
LevelContent(kind, level) ==
    CASE kind = "questions" ->
           <<"#", SP, level, SP, "Go", SP, "Developer", NL, NL,
             BOLD, "Duration", BOLD, ":", SP, "6", "0", SP, "minutes", NL,
             BOLD, "Target", SP, "Level", BOLD, ":", SP, level, NL, NL,
             "##", SP>> \o PartOneTitle \o <<NL, "###", SP>> \o TimedTitle \o <<NL>>
               \o FieldLines("question", "text") \o FieldLines("expected", "points")
      [] kind = "alternatives" ->
           AltDocument([lead |-> TRUE, heading |-> "plain", intro |-> "none",
                        indented |-> TRUE, alts |-> <<[question |-> TRUE, expected |-> TRUE]>>,
                        end |-> "eof"])
      [] OTHER -> <<"just", SP, "text", NL, BOLD, "Format", BOLD, ":", SP, NL>>

RECURSIVE LevelFiles(_, _)
LevelFiles(sh, k) ==
    IF k > Len(interview_levels) THEN FileSystem(1)
    ELSE LET level == interview_levels[k]
             rest == LevelFiles(sh, k + 1)
         IN  CASE sh[level] = "missing" -> rest
               [] sh[level] = "directory" -> (LevelPath(InterviewsDir, level) :> Directory) @@ rest
               [] OTHER -> (LevelPath(InterviewsDir, level) :> File(LevelContent(sh[level], level)))
                               @@ rest

InitExport ==
    /\ pc = interview_levels[1]
    /\ shape \in ExportShapes
    /\ arg = InterviewsDir
    /\ files = LevelFiles(shape, 1)
    /\ ret = Running(<<>>, None, <<>>)

NextExport ==
    \/ \E level \in {interview_levels[k] : k \in 1..Len(interview_levels)} : SkipLevel(level)
    \/ \E level \in {interview_levels[k] : k \in 1..Len(interview_levels)} : ProcessLevel(level)
    \/ WriteSummary

SpecExport == InitExport /\ [][NextExport]_vars

(***************************************************************************)
(* Properties of the export, checked under SpecExport                      *)
(***************************************************************************)
LevelOrder == <<"Junior", "Intermediate", "Senior">>

\* the levels of a directory whose file exists, in the fixed order
RECURSIVE ExistingLevels(_, _)
ExistingLevels(sh, k) ==
    IF k > Len(LevelOrder) THEN <<>>
    ELSE (IF sh[LevelOrder[k]] = "missing" THEN <<>> ELSE <<LevelOrder[k]>>)
             \o ExistingLevels(sh, k + 1)

\* every level has a file or nothing at its path
PlainFiles(sh) == \A k \in 1..Len(LevelOrder) : sh[LevelOrder[k]] # "directory"

\* the levels handled so far, in the order they were handled
HandledLevels(printed) ==
    LET P == {k \in 1..Len(printed) : printed[k].event \in {"skipping", "processing"}}
    IN  [k \in 1..Cardinality(P) |-> printed[k].level]

\* the Level column of the rows of the Summary sheets of a workbook
RECURSIVE SummaryLevels(_)
SummaryLevels(sheets) ==
    IF sheets = <<>> THEN <<>>
    ELSE (IF Head(sheets).name = <<"Summary">>
          THEN [k \in 1..Len(Head(sheets).rows) |-> Head(sheets).rows[k].Level]
          ELSE <<>>) \o SummaryLevels(Tail(sheets))

\* C11: the levels are handled in the order Junior, Intermediate, Senior;
\* whichever of the three files exist, a level whose file is missing is
\* skipped without stopping the later levels and contributes no sheet and no
\* Summary row, and after the loop the Summary holds exactly one row per level
\* whose file exists, in that order, also when the Junior file is missing.
MissingLevelsSkipped ==
    PlainFiles(shape) =>
        /\ ret.kind # "raise" \/ ExistingLevels(shape, 1) = <<>>
        /\ HandledLevels(ret.trace) = SubSeq(LevelOrder, 1, Len(HandledLevels(ret.trace)))
        /\ \A k \in 1..Len(HandledLevels(ret.trace)) :
              (ret.trace[k].event = "skipping") <=> (shape[ret.trace[k].level] = "missing")
        /\ pc \in {"summary", "done"} => HandledLevels(ret.trace) = LevelOrder
        /\ ret.kind # "raise" =>
              \A k \in 1..Len(ret.value.sheets) :
                  LET name == ret.value.sheets[k].name
                  IN  name # <<"Summary">> => shape[name[1]] # "missing"
        /\ pc = "summary" =>
              /\ ret.value.df_summary.some <=> ExistingLevels(shape, 1) # <<>>
              /\ [k \in 1..Len(ret.value.df_summary.value) |-> ret.value.df_summary.value[k].Level]
                     = ExistingLevels(shape, 1)
        /\ (pc = "done" /\ ret.kind = "return") =>
              SummaryLevels(ret.value.sheets) = ExistingLevels(shape, 1)

\* the Junior file is missing, the two later levels are exported
MissingLevelsSkippedWitness ==
    /\ pc = "done"
    /\ shape.Junior = "missing"
    /\ shape.Intermediate = "questions"
    /\ shape.Senior = "bare"
    /\ ret.kind = "return"
    /\ HandledLevels(ret.trace) = LevelOrder
    /\ SummaryLevels(ret.value.sheets) = <<"Intermediate", "Senior">>

====
